---- MODULE Spec2Model ----
(***************************************************************************)
(* Model of the TVM codegen "commons" routines of                          *)
(* compiler/libsolidity/codegen/TVMCommons.cpp: the type encoding queries  *)
(* (typeToDictChar, lengthOfDictKey, storeIntegralOrAddress, bitsForEnum)  *)
(* and the contract hierarchy queries (getContractsChain,                  *)
(* getContractFunctionPairs, getContractFunctions, getFunction,            *)
(* getSuperContract).                                                      *)
(*                                                                         *)
(* std::string values are sequences of one-character strings, so that      *)
(* prefix search, concatenation and decimal formatting are computed.       *)
(* A call's outcome is a record [fatal, value, reports]: fatal is TRUE     *)
(* when the call left by an exception (no value reaches the caller),       *)
(* reports counts the calls made to the diagnostic reporter.               *)
(***************************************************************************)
EXTENDS Integers, Sequences, FiniteSets, TLC

VARIABLES
    definedFunctions,         \* ContractDefinition::definedFunctions(), per contract
    linearizedBaseContracts,  \* annotation().linearizedBaseContracts, per contract
    op,                       \* the routine called last ("none" before any call)
    arg,                      \* its arguments
    result,                   \* its outcome
    reporterCalls             \* calls received by g_errorReporter so far

vars == <<definedFunctions, linearizedBaseContracts, op, arg, result, reporterCalls>>

----------------------------------------------------------------------------
(* Bounds of the model *)

MaxMembers == 2      \* members of a struct used as a dictionary key
MaxValCount == 600   \* enum member counts 1..MaxValCount are enumerated
NumContracts == 3    \* contracts of the program
MaxDecls == 2        \* function declarations in the whole program

(* Program constants *)

MaxBits == 256        \* widest IntegerType
StdAddrLength == 267  \* AddressInfo::stdAddrLength()
ReservedBits == 267   \* the width named by the assertion of storeIntegralOrAddress
StringKeyBits == 256  \* dictionary key length of bytes/string keys

----------------------------------------------------------------------------
(* Strings *)

NoValue == <<"<no value>">>

\* std::string::find(pat): the first 0-based position at which pat occurs,
\* -1 (npos) when it occurs nowhere
StrFind(str, pat) ==
    LET hits == { i \in 0..(Len(str) - Len(pat)) :
                     SubSeq(str, i + 1, i + Len(pat)) = pat }
    IN IF hits = {} THEN -1
       ELSE CHOOSE i \in hits : \A j \in hits : i <= j

DigitChar(d) == <<"0", "1", "2", "3", "4", "5", "6", "7", "8", "9">>[d + 1]

RECURSIVE toString(_)
\* decimal rendering of a non-negative integer
toString(n) ==
    IF n < 10 THEN <<DigitChar(n)>>
    ELSE toString(n \div 10) \o <<DigitChar(n % 10)>>

----------------------------------------------------------------------------
(* Semantic types *)

MkType(cat, signed, bits, isByteArray, isString, members) ==
    [cat |-> cat, signed |-> signed, bits |-> bits,
     isByteArray |-> isByteArray, isString |-> isString, members |-> members]

IntegerType(signed, bits) == MkType("Integer", signed, bits, FALSE, FALSE, <<>>)
AddressType == MkType("Address", FALSE, 0, FALSE, FALSE, <<>>)
ContractType == MkType("Contract", FALSE, 0, FALSE, FALSE, <<>>)
ArrayType(isByteArray, isString) == MkType("Array", FALSE, 0, isByteArray, isString, <<>>)
StringLiteralType == MkType("StringLiteral", FALSE, 0, FALSE, FALSE, <<>>)
StructType(members) == MkType("Struct", FALSE, 0, FALSE, FALSE, members)
OtherType(cat) == MkType(cat, FALSE, 0, FALSE, FALSE, <<>>)

IntegerWidths == (1..MaxBits) \cup {ReservedBits}

IntegerTypes == { IntegerType(s, b) : s \in BOOLEAN, b \in IntegerWidths }

\* uint[] (usual array), bytes, string
ArrayTypes == { ArrayType(FALSE, FALSE), ArrayType(TRUE, FALSE), ArrayType(TRUE, TRUE) }

OtherTypes == { OtherType("Mapping"), OtherType("Function"), OtherType("TvmCell") }

MemberTypes ==
    { IntegerType(FALSE, 8), IntegerType(TRUE, 256), IntegerType(FALSE, 1),
      AddressType, ArrayType(TRUE, FALSE) }

StructTypes ==
    { StructType(m) : m \in UNION { [1..n -> MemberTypes] : n \in 1..MaxMembers } }

Types ==
    IntegerTypes \cup {AddressType, ContractType} \cup ArrayTypes
        \cup {StringLiteralType} \cup StructTypes \cup OtherTypes

\* TypeInfo(type): numeric classification, signedness and bit width
TypeInfo(type) ==
    IF type.cat = "Integer"
    THEN [isNumeric |-> TRUE, isSigned |-> type.signed, numBits |-> type.bits]
    ELSE [isNumeric |-> FALSE, isSigned |-> FALSE, numBits |-> 0]

----------------------------------------------------------------------------
(* Outcomes *)

Return(v) == [fatal |-> FALSE, value |-> v, reports |-> 0]

\* solAssert(cond, ...) followed by the rest of the function
solAssert(cond, rest) ==
    IF cond THEN rest
    ELSE [fatal |-> TRUE, value |-> NoValue, reports |-> 1]

----------------------------------------------------------------------------
(* Type Encoding Resolver *)

isAddressOrContractType(type) == type.cat = "Address" \/ type.cat = "Contract"

isStringOrStringLiteralOrBytes(type) ==
    type.cat = "StringLiteral" \/ (type.cat = "Array" /\ type.isByteArray)

\* faulty variant: the byte array branch is missing
typeToDictChar_NoBytes(keyType) ==
    LET ti == TypeInfo(keyType)
    IN IF ti.isNumeric
       THEN Return(IF ti.isSigned THEN <<"I">> ELSE <<"U">>)
       ELSE Return(<<>>)

typeToDictChar(keyType) ==
    LET ti == TypeInfo(keyType)
    IN IF ti.isNumeric
       THEN Return(IF ti.isSigned THEN <<"I">> ELSE <<"U">>)
       ELSE IF isStringOrStringLiteralOrBytes(keyType)
            THEN Return(<<"U">>)
            ELSE Return(<<>>)

RECURSIVE structKeyLength(_, _, _)
\* the loop over structDefinition.members() of lengthOfDictKey
structKeyLength(members, i, bitLength) ==
    IF i > Len(members) THEN Return(bitLength)
    ELSE LET ti == TypeInfo(members[i])
         IN solAssert(ti.isNumeric,
                      structKeyLength(members, i + 1, bitLength + ti.numBits))

RECURSIVE structKeyLengthSkipping(_, _, _)
structKeyLengthSkipping(members, i, bitLength) ==
    IF i > Len(members) THEN Return(bitLength)
    ELSE structKeyLengthSkipping(members, i + 1, bitLength + TypeInfo(members[i]).numBits)

\* faulty variant: the members of a struct are summed without the numeric check
lengthOfDictKey_NoMemberCheck(key) ==
    IF key.cat \in {"Address", "Contract"} THEN Return(StdAddrLength)
    ELSE IF TypeInfo(key).isNumeric THEN Return(TypeInfo(key).numBits)
    ELSE IF isStringOrStringLiteralOrBytes(key) THEN Return(StringKeyBits)
    ELSE IF key.cat = "Struct" THEN structKeyLengthSkipping(key.members, 1, 0)
    ELSE solAssert(FALSE, Return(NoValue))

RECURSIVE structKeyLengthCheckAll(_, _, _)
structKeyLengthCheckAll(members, i, failures) ==
    IF i > Len(members)
    THEN [fatal |-> failures > 0, value |-> NoValue, reports |-> failures]
    ELSE structKeyLengthCheckAll(members, i + 1,
            IF TypeInfo(members[i]).isNumeric THEN failures ELSE failures + 1)

\* faulty variant: a struct with a non-numeric member is reported once per such
\* member, the loop going on after the first
lengthOfDictKey_ReportEach(key) ==
    IF key.cat = "Struct" /\ \E i \in DOMAIN key.members : ~TypeInfo(key.members[i]).isNumeric
    THEN structKeyLengthCheckAll(key.members, 1, 0)
    ELSE IF key.cat \in {"Address", "Contract"} THEN Return(StdAddrLength)
    ELSE IF TypeInfo(key).isNumeric THEN Return(TypeInfo(key).numBits)
    ELSE IF isStringOrStringLiteralOrBytes(key) THEN Return(StringKeyBits)
    ELSE IF key.cat = "Struct" THEN structKeyLength(key.members, 1, 0)
    ELSE solAssert(FALSE, Return(NoValue))

lengthOfDictKey(key) ==
    IF key.cat \in {"Address", "Contract"} THEN Return(StdAddrLength)
    ELSE IF TypeInfo(key).isNumeric THEN Return(TypeInfo(key).numBits)
    ELSE IF isStringOrStringLiteralOrBytes(key) THEN Return(StringKeyBits)
    ELSE IF key.cat = "Struct" THEN structKeyLength(key.members, 1, 0)
    ELSE solAssert(FALSE, Return(NoValue))

\* faulty variant: the "R" of a reversed store is appended after the width
storeIntegralOrAddress_TrailingR(type, reverse) ==
    IF isAddressOrContractType(type)
    THEN Return(IF reverse THEN <<"S","T","S","L","I","C","E","R">>
                ELSE <<"S","T","S","L","I","C","E">>)
    ELSE LET ti == TypeInfo(type)
             cmd == IF ti.isSigned THEN <<"S","T","I">> ELSE <<"S","T","U">>
             str == cmd \o <<" ">> \o toString(ti.numBits)
         IN IF ti.isNumeric
            THEN Return(IF reverse THEN str \o <<"R">> ELSE str)
            ELSE solAssert(FALSE, Return(NoValue))

storeIntegralOrAddress(type, reverse) ==
    IF isAddressOrContractType(type)
    THEN Return(IF reverse THEN <<"S","T","S","L","I","C","E","R">>
                ELSE <<"S","T","S","L","I","C","E">>)
    ELSE LET ti == TypeInfo(type)
             cmd0 == IF ti.isSigned THEN <<"S","T","I">> ELSE <<"S","T","U">>
             cmd == IF reverse THEN cmd0 \o <<"R">> ELSE cmd0
         IN IF ti.isNumeric
            THEN solAssert(cmd # <<"S","T","U"," ">> \o toString(ReservedBits),
                           Return(cmd \o <<" ">> \o toString(ti.numBits)))
            ELSE solAssert(FALSE, Return(NoValue))

RECURSIVE shiftLoop(_, _)
\* the while (true) loop of bitsForEnum
shiftLoop(val_count, bytes) ==
    LET v == val_count \div 256
        b == bytes + 1
    IN IF v = 0 THEN b ELSE shiftLoop(v, b)

\* faulty variant: the decrement of val_count is missing
bitsForEnum_NoDecrement(val_count) == Return(8 * shiftLoop(val_count, 0))

\* val_count is a size_t >= 1 here, so val_count-- does not wrap
bitsForEnum(val_count) == Return(8 * shiftLoop(val_count - 1, 0))

----------------------------------------------------------------------------
(* Program model: contracts, their linearization and their declarations *)

Contracts == 1..NumContracts

\* ContractDefinition::name(): "C1", "C2", ...
ContractName(c) == <<"C">> \o toString(c)

\* FunctionDefinition: the declared name and the kind of function
FunctionKinds == {"Regular", "Constructor", "Receive", "Fallback", "OnBounce"}

Decl(name, kind) == [name |-> name, kind |-> kind]

\* the declarations a contract may hold; special functions have an empty
\* declared name
DeclKinds ==
    { Decl(<<"f","o","o">>, "Regular"),
      Decl(<<"t","v","m","_","a">>, "Regular"),
      Decl(<<"x","t","v","m","_">>, "Regular"),
      Decl(<<>>, "Constructor"),
      Decl(<<>>, "Receive"),
      Decl(<<>>, "Fallback"),
      Decl(<<>>, "OnBounce") }

\* the declared names a lookup may ask for: those of DeclKinds and one that
\* nothing declares
DeclaredNames ==
    { d.name : d \in DeclKinds } \cup { <<"r","e","c","e","i","v","e">> }

\* the effective names a query may ask for
QueryNames ==
    DeclaredNames
        \cup { <<"f","a","l","l","b","a","c","k">>, <<"o","n","B","o","u","n","c","e">> }
        \cup { ContractName(c) : c \in Contracts }

DeclSeqs == UNION { [1..n -> DeclKinds] : n \in 0..MaxDecls }

\* a FunctionDefinition const* : the owning contract and the position in its
\* definedFunctions(); the null pointer is NullFunction
FunctionRef(c, i) == [contract |-> c, index |-> i]

NullFunction == FunctionRef(0, 0)

\* a ContractDefinition const* is the contract's number; 0 is the null pointer
NullContract == 0

Def(f) == definedFunctions[f.contract][f.index]

isConstructor(f) == Def(f).kind = "Constructor"

functionName(f) ==
    IF isConstructor(f) THEN ContractName(f.contract)
    ELSE IF Def(f).kind = "Receive" THEN <<"r","e","c","e","i","v","e">>
    ELSE IF Def(f).kind = "Fallback" THEN <<"f","a","l","l","b","a","c","k">>
    ELSE IF Def(f).kind = "OnBounce" THEN <<"o","n","B","o","u","n","c","e">>
    ELSE Def(f).name

isTvmIntrinsic(name) == 0 = StrFind(name, <<"t","v","m","_">>)

Reverse(s) == [i \in 1..Len(s) |-> s[Len(s) + 1 - i]]

\* faulty variant: the linearization is used as it comes, most derived first
getContractsChain_NotReversed(contract) == linearizedBaseContracts[contract]

getContractsChain(contract) == Reverse(linearizedBaseContracts[contract])

RECURSIVE pairsOfChain(_, _)
\* the outer loop of getContractFunctionPairs over the chain, from position i
pairsOfChain(chain, i) ==
    IF i > Len(chain) THEN <<>>
    ELSE [k \in 1..Len(definedFunctions[chain[i]]) |->
              <<FunctionRef(chain[i], k), chain[i]>>]
         \o pairsOfChain(chain, i + 1)

getContractFunctionPairs(contract) == pairsOfChain(getContractsChain(contract), 1)

RECURSIVE firstNamed(_, _, _)
\* the loop of getFunction over contract->definedFunctions(), from position i
firstNamed(contract, name, i) ==
    IF i > Len(definedFunctions[contract]) THEN NullFunction
    ELSE IF definedFunctions[contract][i].name = name THEN FunctionRef(contract, i)
    ELSE firstNamed(contract, name, i + 1)

RECURSIVE lastNamed(_, _, _, _)
lastNamed(contract, name, i, found) ==
    IF i > Len(definedFunctions[contract]) THEN found
    ELSE lastNamed(contract, name, i + 1,
                   IF definedFunctions[contract][i].name = name
                   THEN FunctionRef(contract, i) ELSE found)

\* faulty variant: the loop records the match and goes on, returning the last one
getFunction_LastMatch(contract, name) == lastNamed(contract, name, 1, NullFunction)

getFunction(contract, name) == firstNamed(contract, name, 1)

RECURSIVE superLoop(_, _, _, _, _)
\* the loop of getSuperContract over the chain, from position i
superLoop(chain, currentContract, fname, i, prev) ==
    IF i > Len(chain) THEN prev
    ELSE IF chain[i] = currentContract THEN prev
    ELSE superLoop(chain, currentContract, fname, i + 1,
                   IF getFunction(chain[i], fname) # NullFunction
                   THEN chain[i] ELSE prev)

RECURSIVE superLoopNoBreak(_, _, _, _)
superLoopNoBreak(chain, fname, i, prev) ==
    IF i > Len(chain) THEN prev
    ELSE superLoopNoBreak(chain, fname, i + 1,
                          IF getFunction(chain[i], fname) # NullFunction
                          THEN chain[i] ELSE prev)

\* faulty variant: the loop does not stop at currentContract
getSuperContract_NoBreak(currentContract, mainContract, fname) ==
    superLoopNoBreak(getContractsChain(mainContract), fname, 1, NullContract)

getSuperContract(currentContract, mainContract, fname) ==
    superLoop(getContractsChain(mainContract), currentContract, fname, 1, NullContract)

\* getContractFunctions(contract, funcName)
getContractFunctionsByName(contract, funcName) ==
    LET pairs == getContractFunctionPairs(contract)
        keep(p) == ~isConstructor(p[1]) /\ functionName(p[1]) = funcName
        kept == SelectSeq(pairs, keep)
    IN [i \in 1..Len(kept) |-> kept[i][1]]

back(s) == s[Len(s)]

\* faulty variant: the comparison with the last override is left out
getContractFunctions_AllOverrides(contract) ==
    LET pairs == getContractFunctionPairs(contract)
        keep(p) == ~isConstructor(p[1]) /\ ~isTvmIntrinsic(functionName(p[1]))
        kept == SelectSeq(pairs, keep)
    IN [i \in 1..Len(kept) |-> kept[i][1]]

\* getContractFunctions(contract)
getContractFunctions(contract) ==
    LET pairs == getContractFunctionPairs(contract)
        keep(p) ==
            /\ ~isConstructor(p[1])
            /\ ~isTvmIntrinsic(functionName(p[1]))
            /\ p[1] = back(getContractFunctionsByName(contract, functionName(p[1])))
        kept == SelectSeq(pairs, keep)
    IN [i \in 1..Len(kept) |-> kept[i][1]]

----------------------------------------------------------------------------
(* Specifications *)

\* the inheritance chain C1 <- C2 <- ... : each contract derives from the one
\* before it, and its linearization lists the most derived contract first
LinearChain == [c \in Contracts |-> [i \in 1..c |-> c + 1 - i]]

NoCall == [fatal |-> FALSE, value |-> NoValue, reports |-> 0]

NoArg == [none |-> TRUE]

\* a query is made when no result is pending, and leaves its outcome for the
\* caller
Call(name, a, outcome) ==
    /\ op = "none"
    /\ op' = name
    /\ arg' = a
    /\ result' = outcome
    /\ reporterCalls' = outcome.reports
    /\ UNCHANGED <<definedFunctions, linearizedBaseContracts>>

\* the caller takes the value returned; after a fatal outcome the compilation
\* has been abandoned and nothing follows
Consume ==
    /\ op # "none"
    /\ ~result.fatal
    /\ op' = "none"
    /\ arg' = NoArg
    /\ result' = NoCall
    /\ reporterCalls' = 0
    /\ UNCHANGED <<definedFunctions, linearizedBaseContracts>>

(* -- the hierarchy queries over every program within the bounds -- *)

\* the declarations decls, dealt to the contracts in order: owners[i] is the
\* contract that holds decls[i]
ProgramOf(decls, owners) ==
    [c \in Contracts |->
        SubSeq(decls,
               Cardinality({ i \in DOMAIN owners : owners[i] < c }) + 1,
               Cardinality({ i \in DOMAIN owners : owners[i] <= c }))]

\* a contract has at most one constructor, one receive, one fallback and one
\* onBounce function; regular functions may be overloaded
WellFormed(program) ==
    \A c \in Contracts, kind \in FunctionKinds \ {"Regular"} :
        Cardinality({ i \in DOMAIN program[c] : program[c][i].kind = kind }) <= 1

\* every program of NumContracts contracts with at most MaxDecls declarations
Programs ==
    { program \in
        UNION { { ProgramOf(decls, owners) :
                    owners \in { o \in [DOMAIN decls -> Contracts] :
                                    \A i, j \in DOMAIN decls : i <= j => o[i] <= o[j] } } :
                decls \in DeclSeqs } :
      WellFormed(program) }

Init ==
    /\ linearizedBaseContracts = LinearChain
    /\ definedFunctions \in Programs
    /\ op = "none"
    /\ arg = NoArg
    /\ result = NoCall
    /\ reporterCalls = 0

CallGetSuperContract ==
    \E mainContract \in Contracts :
      \E k \in 1..Len(linearizedBaseContracts[mainContract]), fname \in DeclaredNames :
        LET currentContract == linearizedBaseContracts[mainContract][k]
        IN Call("getSuperContract",
                [currentContract |-> currentContract, mainContract |-> mainContract,
                 fname |-> fname],
                Return(getSuperContract(currentContract, mainContract, fname)))

CallGetFunction ==
    \E contract \in Contracts, name \in DeclaredNames :
        Call("getFunction", [contract |-> contract, name |-> name],
             Return(getFunction(contract, name)))

CallGetContractFunctions ==
    \E contract \in Contracts :
        Call("getContractFunctions", [contract |-> contract],
             Return(getContractFunctions(contract)))

CallGetContractFunctionsByName ==
    \E contract \in Contracts, funcName \in QueryNames :
        Call("getContractFunctionsByName", [contract |-> contract, funcName |-> funcName],
             Return(getContractFunctionsByName(contract, funcName)))

Next ==
    \/ CallGetSuperContract
    \/ CallGetFunction
    \/ CallGetContractFunctions
    \/ CallGetContractFunctionsByName
    \/ Consume

Spec == Init /\ [][Next]_vars

(* -- the type encoding queries over every type within the bounds -- *)

TypeInit ==
    /\ linearizedBaseContracts = LinearChain
    /\ definedFunctions = [c \in Contracts |-> <<>>]
    /\ op = "none"
    /\ arg = NoArg
    /\ result = NoCall
    /\ reporterCalls = 0

CallTypeToDictChar ==
    \E keyType \in Types :
        Call("typeToDictChar", [type |-> keyType], typeToDictChar(keyType))

CallLengthOfDictKey ==
    \E key \in Types :
        Call("lengthOfDictKey", [type |-> key], lengthOfDictKey(key))

CallStoreIntegralOrAddress ==
    \E type \in Types, reverse \in BOOLEAN :
        Call("storeIntegralOrAddress", [type |-> type, reverse |-> reverse],
             storeIntegralOrAddress(type, reverse))

TypeNext ==
    \/ CallTypeToDictChar
    \/ CallLengthOfDictKey
    \/ CallStoreIntegralOrAddress
    \/ Consume

TypeSpec == TypeInit /\ [][TypeNext]_vars

(* -- bitsForEnum over the member counts within the bounds -- *)

\* member counts around the byte boundaries beyond MaxValCount
BoundaryCounts == {65535, 65536, 65537, 16777215, 16777216}

ValCounts == (1..MaxValCount) \cup BoundaryCounts

CallBitsForEnum ==
    \E val_count \in ValCounts :
        Call("bitsForEnum", [val_count |-> val_count], bitsForEnum(val_count))

EnumNext ==
    \/ CallBitsForEnum
    \/ Consume

EnumSpec == TypeInit /\ [][EnumNext]_vars

----------------------------------------------------------------------------
(* What the claims are stated in: the program model read directly, without *)
(* the routines above                                                      *)

\* position of contract c in the base-first order of main's inheritance chain
\* (1 is the most basic contract); 0 when c is not in the chain
ChainPos(main, c) ==
    LET lin == linearizedBaseContracts[main]
        at == { i \in DOMAIN lin : lin[i] = c }
    IN IF at = {} THEN 0 ELSE Len(lin) + 1 - (CHOOSE i \in at : TRUE)

\* contract c holds a declaration whose declared name is name
Declares(c, name) ==
    \E i \in DOMAIN definedFunctions[c] : definedFunctions[c][i].name = name

RoleName ==
    [Receive |-> <<"r","e","c","e","i","v","e">>,
     Fallback |-> <<"f","a","l","l","b","a","c","k">>,
     OnBounce |-> <<"o","n","B","o","u","n","c","e">>]

\* the effective name of a declaration that is not a constructor
EffectiveName(f) ==
    LET d == definedFunctions[f.contract][f.index]
    IN IF d.kind = "Regular" THEN d.name ELSE RoleName[d.kind]

IsCtor(f) == definedFunctions[f.contract][f.index].kind = "Constructor"

StartsWithTvm(name) == Len(name) >= 4 /\ SubSeq(name, 1, 4) = <<"t","v","m","_">>

\* every declaration of the contracts of main's chain
ChainDecls(main) ==
    { FunctionRef(c, i) : c \in Contracts, i \in 1..MaxDecls } \cap
    { f \in [contract : Contracts, index : 1..MaxDecls] :
        /\ ChainPos(main, f.contract) > 0
        /\ f.index <= Len(definedFunctions[f.contract]) }

\* declaration f comes before g in base-first, then declaration, order
Before(main, f, g) ==
    \/ ChainPos(main, f.contract) < ChainPos(main, g.contract)
    \/ f.contract = g.contract /\ f.index < g.index

Range(s) == { s[i] : i \in DOMAIN s }

\* C1: getSuperContract(currentContract, mainContract, fname), for a
\* currentContract of mainContract's chain, returns the last contract of the
\* base-first chain that lies strictly before currentContract and declares
\* fname, and none (the null contract) when no contract strictly before
\* currentContract declares it, whatever currentContract and the contracts
\* after it declare; the result is never currentContract nor a later contract.
C1_SuperIsLastEarlierDeclarer ==
    op = "getSuperContract" =>
        LET main == arg.mainContract
            cur == arg.currentContract
            earlier == { c \in Contracts :
                           /\ ChainPos(main, c) > 0
                           /\ ChainPos(main, c) < ChainPos(main, cur)
                           /\ Declares(c, arg.fname) }
            r == result.value
        IN /\ ~result.fatal
           /\ earlier = {} => r = NullContract
           /\ earlier # {} =>
                 /\ r \in earlier
                 /\ \A c \in earlier : ChainPos(main, c) <= ChainPos(main, r)
           /\ r # cur
           /\ r # NullContract => ChainPos(main, r) < ChainPos(main, cur)

\* C1 witness: C1 <- C2 <- C3 where C1 and C3 declare "foo" and C2 does not;
\* the super contract of C3 for "foo" is C1.
C1_Witness ==
    /\ op = "getSuperContract"
    /\ arg.mainContract = 3 /\ arg.currentContract = 3
    /\ arg.fname = <<"f","o","o">>
    /\ Declares(1, arg.fname) /\ ~Declares(2, arg.fname) /\ Declares(3, arg.fname)
    /\ result.value = 1

\* C2: getContractFunctions(contract) holds no constructor and no declaration
\* whose effective name starts with "tvm_", and for every other effective name
\* of a non-constructor declaration of the chain it holds exactly one
\* declaration, the most derived one.
C2_VisibleFunctionsAreWinners ==
    op = "getContractFunctions" =>
        LET main == arg.contract
            r == result.value
            decls == { f \in ChainDecls(main) : ~IsCtor(f) }
            names == { EffectiveName(f) : f \in decls }
        IN /\ ~result.fatal
           /\ \A i \in DOMAIN r :
                 /\ r[i] \in ChainDecls(main)
                 /\ ~IsCtor(r[i])
                 /\ ~StartsWithTvm(EffectiveName(r[i]))
           /\ \A n \in names :
                 LET hits == { i \in DOMAIN r : EffectiveName(r[i]) = n }
                 IN IF StartsWithTvm(n) THEN hits = {}
                    ELSE /\ Cardinality(hits) = 1
                         /\ \A i \in hits, f \in decls :
                               EffectiveName(f) = n /\ f # r[i] => Before(main, f, r[i])

\* C2 witness: C1 and C3 define "foo", C2 does not; the functions of C3 are
\* C3's "foo" alone.
C2_Witness ==
    /\ op = "getContractFunctions"
    /\ arg.contract = 3
    /\ Declares(1, <<"f","o","o">>) /\ Declares(3, <<"f","o","o">>)
    /\ result.value = <<FunctionRef(3, 1)>>

\* C3: getContractFunctions(contract, funcName) returns exactly the
\* non-constructor declarations of the chain whose effective name is funcName,
\* base-first and then in declaration order, so that the last element belongs
\* to the most derived contract that defines the name; no constructor is
\* returned, also when funcName is the name of its contract.
C3_OverridesInChainOrder ==
    op = "getContractFunctionsByName" =>
        LET main == arg.contract
            r == result.value
            matching == { f \in ChainDecls(main) :
                            ~IsCtor(f) /\ EffectiveName(f) = arg.funcName }
        IN /\ ~result.fatal
           /\ Range(r) = matching
           /\ \A i, j \in DOMAIN r : i < j => Before(main, r[i], r[j])
           /\ \A i \in DOMAIN r : ~IsCtor(r[i])
           /\ r # <<>> =>
                 \A f \in matching :
                    ChainPos(main, f.contract) <= ChainPos(main, r[Len(r)].contract)

\* C3 witness: a base and a derived contract each define receive; both are
\* returned for "receive", the base's first.
C3_Witness ==
    /\ op = "getContractFunctionsByName"
    /\ arg.funcName = <<"r","e","c","e","i","v","e">>
    /\ Len(result.value) = 2
    /\ result.value[1].contract < result.value[2].contract
    /\ arg.contract = result.value[2].contract

\* C9: getFunction(contract, name) looks only at the contract's own
\* declarations and returns the first of them, in declaration order, whose
\* declared name is name, or none; a function declared in the contract under
\* a name that starts with "tvm_" is found by it although no function of that
\* name is among getContractFunctions of the contract.
C9_ExactLookupIsFirstOwnMatch ==
    op = "getFunction" =>
        LET c == arg.contract
            own == { i \in DOMAIN definedFunctions[c] :
                       definedFunctions[c][i].name = arg.name }
            r == result.value
        IN /\ ~result.fatal
           /\ own = {} => r = NullFunction
           /\ own # {} =>
                 /\ r.contract = c
                 /\ r.index \in own
                 /\ \A i \in own : r.index <= i
           /\ (own # {} /\ StartsWithTvm(arg.name)) =>
                 \A i \in DOMAIN getContractFunctions(c) :
                    functionName(getContractFunctions(c)[i]) # arg.name

\* C9 witness: the contract declares "tvm_a" twice; the lookup returns the
\* first declaration, and the contract has no visible function.
C9_Witness ==
    /\ op = "getFunction"
    /\ arg.name = <<"t","v","m","_","a">>
    /\ arg.contract = 2
    /\ Len(definedFunctions[2]) = 2
    /\ definedFunctions[2][1].name = arg.name /\ definedFunctions[2][2].name = arg.name
    /\ result.value = FunctionRef(2, 1)
    /\ getContractFunctions(2) = <<>>

----------------------------------------------------------------------------
(* The type encoding claims *)

IsNumericType(t) == t.cat = "Integer"

IsBytesLike(t) == t.cat = "StringLiteral" \/ (t.cat = "Array" /\ t.isByteArray)

RECURSIVE SumBits(_)
\* the sum of the bit widths of the members of an all-numeric struct
SumBits(members) ==
    IF members = <<>> THEN 0 ELSE members[1].bits + SumBits(Tail(members))

AllNumeric(members) == \A i \in DOMAIN members : IsNumericType(members[i])

Digits == {"0", "1", "2", "3", "4", "5", "6", "7", "8", "9"}

DigitValue(ch) == CHOOSE d \in 0..9 : DigitChar(d) = ch

RECURSIVE ParseDecimal(_)
\* the number a sequence of decimal digits denotes
ParseDecimal(ds) ==
    IF ds = <<>> THEN 0
    ELSE 10 * ParseDecimal(SubSeq(ds, 1, Len(ds) - 1)) + DigitValue(ds[Len(ds)])

\* str is mnemonic, a space, and the decimal numeral of bits
IsStoreOf(str, mnemonic, bits) ==
    LET n == Len(mnemonic)
        ds == SubSeq(str, n + 2, Len(str))
    IN /\ Len(str) >= n + 2
       /\ SubSeq(str, 1, n + 1) = mnemonic \o <<" ">>
       /\ \A i \in DOMAIN ds : ds[i] \in Digits
       /\ ds[1] # "0"
       /\ ParseDecimal(ds) = bits

\* C4: lengthOfDictKey returns the standard address length for Address and
\* Contract, the type's own width for a numeric type, 256 for bytes, string
\* and string literals, the sum of the members' widths for a struct whose
\* members are all numeric; it fails fatally, returning nothing, for a struct
\* with a non-numeric member and for every other category.
C4_DictKeyLengthByCategory ==
    op = "lengthOfDictKey" =>
        LET t == arg.type
        IN IF t.cat \in {"Address", "Contract"}
              THEN ~result.fatal /\ result.value = StdAddrLength
           ELSE IF IsNumericType(t)
              THEN ~result.fatal /\ result.value = t.bits
           ELSE IF IsBytesLike(t)
              THEN ~result.fatal /\ result.value = 256
           ELSE IF t.cat = "Struct" /\ AllNumeric(t.members)
              THEN ~result.fatal /\ result.value = SumBits(t.members)
           ELSE result.fatal /\ result.value = NoValue

\* C4 witness: a struct key whose first member is numeric and whose second is
\* not; the call has failed and no partial sum is returned.
C4_Witness ==
    /\ op = "lengthOfDictKey"
    /\ arg.type.cat = "Struct"
    /\ Len(arg.type.members) = 2
    /\ IsNumericType(arg.type.members[1])
    /\ ~IsNumericType(arg.type.members[2])
    /\ result.fatal

\* C5 as stated: for a numeric type of width b in 1..256, storeIntegralOrAddress
\* never fails and returns "STI " + b (signed) or "STU " + b (unsigned), with a
\* trailing "R" iff the reverse flag is set.
C5_Original_TrailingR ==
    (op = "storeIntegralOrAddress" /\ IsNumericType(arg.type) /\ arg.type.bits \in 1..MaxBits) =>
        LET mnemonic == IF arg.type.signed THEN <<"S","T","I">> ELSE <<"S","T","U">>
            v == result.value
        IN /\ ~result.fatal
           /\ IF arg.reverse
              THEN /\ v # <<>>
                   /\ v[Len(v)] = "R"
                   /\ IsStoreOf(SubSeq(v, 1, Len(v) - 1), mnemonic, arg.type.bits)
              ELSE IsStoreOf(v, mnemonic, arg.type.bits)

\* C5 amended: for a numeric type of width b in 1..256, storeIntegralOrAddress
\* never fails and returns the mnemonic "STI" (signed) or "STU" (unsigned),
\* with "R" appended to the mnemonic iff the reverse flag is set, then a space
\* and the decimal width b: "STI 8", "STIR 8", "STU 256", "STUR 256".
C5_StoreMnemonicThenWidth ==
    (op = "storeIntegralOrAddress" /\ IsNumericType(arg.type) /\ arg.type.bits \in 1..MaxBits) =>
        LET base == IF arg.type.signed THEN <<"S","T","I">> ELSE <<"S","T","U">>
            mnemonic == IF arg.reverse THEN base \o <<"R">> ELSE base
        IN /\ ~result.fatal
           /\ IsStoreOf(result.value, mnemonic, arg.type.bits)

\* C5 witness: a signed 8-bit integer stored with reversed operands gives
\* "STIR 8".
C5_Witness ==
    /\ op = "storeIntegralOrAddress"
    /\ arg.type = IntegerType(TRUE, 8)
    /\ arg.reverse
    /\ result.value = <<"S","T","I","R"," ","8">>

\* C7: typeToDictChar returns "I" for a signed and "U" for an unsigned numeric
\* type, "U" for bytes, string and string literals, and "" for every other
\* category, Address, Contract and Struct included; whenever it returns "I" or
\* "U", lengthOfDictKey of the same type succeeds, with the numeric width or
\* with 256.
C7_DictCharByCategory ==
    op = "typeToDictChar" =>
        LET t == arg.type
            len == lengthOfDictKey(t)
        IN /\ ~result.fatal
           /\ result.value =
                 (IF IsNumericType(t) THEN (IF t.signed THEN <<"I">> ELSE <<"U">>)
                  ELSE IF IsBytesLike(t) THEN <<"U">>
                  ELSE <<>>)
           /\ t.cat \in {"Address", "Contract", "Struct"} => result.value = <<>>
           /\ result.value \in {<<"I">>, <<"U">>} =>
                 /\ ~len.fatal
                 /\ len.value = (IF IsNumericType(t) THEN t.bits ELSE 256)

\* C7 witness: a string key is keyed as an unsigned number.
C7_Witness ==
    /\ op = "typeToDictChar"
    /\ arg.type = ArrayType(TRUE, TRUE)
    /\ result.value = <<"U">>

\* the inputs on which the type encoding routines fail
IsFatalInput ==
    \/ /\ op = "lengthOfDictKey"
       /\ ~(arg.type.cat \in {"Address", "Contract"})
       /\ ~IsNumericType(arg.type)
       /\ ~IsBytesLike(arg.type)
       /\ (arg.type.cat = "Struct" => ~AllNumeric(arg.type.members))
    \/ /\ op = "storeIntegralOrAddress"
       /\ ~(arg.type.cat \in {"Address", "Contract"})
       /\ ~IsNumericType(arg.type)

C10_Signed267Rejected ==
    (/\ op = "storeIntegralOrAddress"
     /\ IsNumericType(arg.type)
     /\ arg.type.signed
     /\ arg.type.bits = 267) => result.fatal

----------------------------------------------------------------------------
(* The enum width claim *)

\* C6: for every member count n >= 1, bitsForEnum(n) is the smallest positive
\* multiple of 8, w, with 2^w > n - 1; so it is a multiple of 8, it does not
\* decrease as n grows, and it is 8 for 1, 255 and 256 and 16 for 257.
C6_EnumWidthSmallestByteAligned ==
    op = "bitsForEnum" =>
        LET n == arg.val_count
            w == result.value
        IN /\ ~result.fatal
           /\ w > 0
           /\ w % 8 = 0
           /\ 2^w > n - 1
           /\ w > 8 => 2^(w - 8) <= n - 1
           /\ \A m \in ValCounts : m <= n => bitsForEnum(m).value <= w
           /\ n \in {1, 255, 256} => w = 8
           /\ n = 257 => w = 16

\* C6 witness: 257 members need two bytes.
C6_Witness ==
    /\ op = "bitsForEnum"
    /\ arg.val_count = 257
    /\ result.value = 16

====
